---- MODULE Spec2Model ----
(***************************************************************************)
(* A model of swallow.py: the singletest decorator, its validation and its *)
(* run() method, takes_no_positional_arguments, the stdout_to_devnull      *)
(* context manager, print_exception and the Swallow suite (registration,   *)
(* iteration, run).                                                        *)
(*                                                                         *)
(* Spec           one decoration, then t.run(no_output) on the test made.  *)
(* SuiteSpec      a Swallow instance: registrations, Swallow.run,          *)
(*                iteration.                                               *)
(* ValidatorSpec  takes_no_positional_arguments asked about a signature.   *)
(***************************************************************************)
EXTENDS Integers, Sequences, FiniteSets, TLC

\* Python's None, where the other values are strings.
None == "None"

(***************************************************************************)
(* Bounds of the model.                                                    *)
(***************************************************************************)
\* How many times t.run() is called on the decorated test.
MaxRuns == 2
\* How many registrations are made on a suite.
MaxTests == 2
\* How many positional parameters a signature given to the validator has.
MaxPos == 3

(***************************************************************************)
(* Exception classes.  ClassParent is Python's built-in hierarchy for the  *)
(* kinds the callables of the model raise; SystemExit derives from         *)
(* BaseException only, so "except Exception" does not catch it.            *)
(***************************************************************************)
ClassParent(k) ==
    CASE k = "ZeroDivisionError" -> "ArithmeticError"
      [] k = "ArithmeticError"   -> "Exception"
      [] k = "TypeError"         -> "Exception"
      [] k = "AttributeError"    -> "Exception"
      [] k = "Exception"         -> "BaseException"
      [] k = "SystemExit"        -> "BaseException"
      [] OTHER                   -> None

RECURSIVE IsSubclass(_, _)
IsSubclass(k, base) ==
    IF k = base THEN TRUE
    ELSE IF ClassParent(k) = None THEN FALSE
    ELSE IsSubclass(ClassParent(k), base)

\* A handler that catches arithmetic errors only.
ExceptExceptionNarrow(k) == IsSubclass(k, "ArithmeticError")
\* The handler "except Exception" of run(): an isinstance match.
ExceptException(k) == IsSubclass(k, "Exception")

\* "type(e) != expected": identity of the class, no subclass match.
TypeDiffers(k, expected) == k # expected

(***************************************************************************)
(* Values of sys.stdout.  "console" is the stream installed before any     *)
(* test code ran, "devnull" a file opened on os.devnull by __enter__,      *)
(* "user" a stream object installed by test code (it has close()),         *)
(* NoStream the value None or an object without close() installed by test  *)
(* code.                                                                   *)
(***************************************************************************)
NoStream == "NoStream"

\* sys.stdout.close() succeeds on file objects, raises AttributeError on None.
HasClose(s) == s # NoStream

(***************************************************************************)
(* The user's callables (setup, body, teardown), by what a call does:      *)
(*   raises  the class of the error the call raises, or None               *)
(*   sets    the value the call assigns to sys.stdout, or "keep"           *)
(*   truthy  bool(f): False for a callable object with __len__() == 0      *)
(*   tb      what the traceback of the raised error looks like:            *)
(*           "plain"    a Python frame with source that tokenizes          *)
(*           "noframe"  raised by a C callable: no frame below run()'s     *)
(*           "nosource" raised in code made by exec(): no source to read   *)
(*           "notokens" raised on a line that is part of a statement       *)
(*                      spanning several lines                             *)
(***************************************************************************)
Fn(name, raises, sets, truthy, tb) ==
    [name |-> name, raises |-> raises, sets |-> sets, truthy |-> truthy, tb |-> tb]

F_ok      == Fn("ok",      None,                "keep",   TRUE,  "plain")
F_zde     == Fn("zde",     "ZeroDivisionError", "keep",   TRUE,  "plain")
F_arith   == Fn("arith",   "ArithmeticError",   "keep",   TRUE,  "plain")
F_builtin == Fn("builtin", "TypeError",         "keep",   TRUE,  "noframe")
F_mute    == Fn("mute",    None,                NoStream, TRUE,  "plain")
F_zdemute == Fn("zdemute", "ZeroDivisionError", NoStream, TRUE,  "plain")
F_swap    == Fn("swap",    None,                "user",   TRUE,  "plain")
F_falsy   == Fn("falsy",   None,                "keep",   FALSE, "plain")
F_sysexit == Fn("sysexit", "SystemExit",        "keep",   TRUE,  "plain")
F_exec    == Fn("exec",    "ZeroDivisionError", "keep",   TRUE,  "nosource")
F_multi   == Fn("multi",   "ZeroDivisionError", "keep",   TRUE,  "notokens")

\* Values and callables that singletest's validation meets: the integer 42,
\* "lambda x: x", the bound method "obj.m" of "def m(self): pass", and
\* "def f() -> None: pass".  The last two can be called without arguments.
F_int    == Fn("int",    "TypeError", "keep", TRUE, "plain")
F_needs  == Fn("needs",  "TypeError", "keep", TRUE, "plain")
F_method == Fn("method", None,        "keep", TRUE, "plain")
F_annot  == Fn("annot",  None,        "keep", TRUE, "plain")

\* None passed as setup or teardown: not callable, and false in "if setup:".
NoneFn == Fn("None", None, "keep", FALSE, "plain")

Callables == {F_ok, F_zde, F_arith, F_builtin, F_mute, F_zdemute, F_swap, F_falsy, F_sysexit}

\* What singletest's validation turns down.
Uncallables == {F_int, F_needs, F_method, F_annot}

\* The values of the "expected" parameter.
Expecteds == {None, "ZeroDivisionError", "ArithmeticError", "AttributeError"}

\* "if setup:" / "if teardown:" test the truth value.
Truthy(f) == f.truthy

(***************************************************************************)
(* Callability and signatures, as callable() and inspect.getargspec() see  *)
(* them.  kind is "function" (a def, a lambda, a staticmethod), "method"   *)
(* (a bound method: its first parameter, self or cls, is already bound),   *)
(* "native" (callable but not a Python function: a built-in, a class, an   *)
(* object with __call__, a functools.partial), "value" (a non-callable     *)
(* object that is not None) or "none" (None).  npos counts the positional  *)
(* parameters of the underlying function (self included for a method),     *)
(* ndefaults those with a default, star tells whether it has *args or      *)
(* **kwargs, special whether it has keyword-only parameters or             *)
(* annotations.                                                            *)
(***************************************************************************)
Sig(kind, npos, ndefaults, star, special) ==
    [kind |-> kind, npos |-> npos, ndefaults |-> ndefaults, star |-> star,
     special |-> special]

\* The signatures of the callables of the model.
Signature(f) ==
    CASE f.name = "None"    -> Sig("none",     0, 0, FALSE, FALSE)
      [] f.name = "int"     -> Sig("value",    0, 0, FALSE, FALSE)
      [] f.name = "builtin" -> Sig("native",   1, 0, FALSE, FALSE)
      [] f.name = "falsy"   -> Sig("native",   0, 0, FALSE, FALSE)
      [] f.name = "needs"   -> Sig("function", 1, 0, FALSE, FALSE)
      [] f.name = "method"  -> Sig("method",   1, 0, FALSE, FALSE)
      [] f.name = "annot"   -> Sig("function", 0, 0, FALSE, TRUE)
      [] OTHER              -> Sig("function", 0, 0, FALSE, FALSE)

\* callable(f).
IsCallable(sig) == sig.kind \in {"function", "method", "native"}

\* inspect.getargspec(fn): TypeError when fn is not a Python function or
\* method, ValueError when it has keyword-only parameters or annotations,
\* else the names of the positional parameters and the defaults (here their
\* numbers); a bound method's self is among the names.
GetArgSpec(sig) ==
    IF sig.kind \notin {"function", "method"}
    THEN [raised |-> "TypeError", pos |-> 0, default |-> 0]
    ELSE IF sig.special
    THEN [raised |-> "ValueError", pos |-> 0, default |-> 0]
    ELSE [raised |-> None, pos |-> sig.npos, default |-> sig.ndefaults]

\* takes_no_positional_arguments(fn): None on getargspec's TypeError, else
\* "len(default) - len(pos) == 0"; any other error of getargspec leaves it.
TakesNoPositionalArguments(sig) ==
    LET a == GetArgSpec(sig)
    IN  IF a.raised = "TypeError" THEN [raised |-> None, value |-> "None"]
        ELSE IF a.raised # None THEN [raised |-> a.raised, value |-> "None"]
        ELSE [raised |-> None,
              value |-> IF a.default - a.pos = 0 THEN "True" ELSE "False"]

\* One turn of "for f in (fn, setup, teardown)" in decorating_function: the
\* error it raises for f, or None.  why tells the statement that raised.
Rejects(f, who) ==
    LET sig == Signature(f)
        v == TakesNoPositionalArguments(sig)
    IN  IF sig.kind # "none" /\ ~IsCallable(sig)
        THEN [raised |-> "ValueError", why |-> "not callable", who |-> who]
        ELSE IF v.raised # None
        THEN [raised |-> v.raised, why |-> "getargspec", who |-> who]
        ELSE IF v.value = "False"
        THEN [raised |-> "ValueError", why |-> "positional", who |-> who]
        ELSE [raised |-> None, why |-> None, who |-> None]

\* No error where the error of a registration may stand.
Accepted == [raised |-> None, why |-> None, who |-> None]

(***************************************************************************)
(* stdout_to_devnull: __init__/__enter__ and __exit__, as functions of     *)
(* sys.stdout.                                                             *)
(***************************************************************************)
\* __enter__: with hide, back sys.stdout up in self.stdout and install devnull.
Enter(hide, out) ==
    [saved |-> IF hide THEN out ELSE None,
     out   |-> IF hide THEN "devnull" ELSE out]

\* __exit__: with hide, sys.stdout.close() and then sys.stdout = self.stdout;
\* when close() raises the assignment is not reached.
Exit(hide, saved, out) ==
    IF hide
    THEN IF HasClose(out)
         THEN [raised |-> None, out |-> saved]
         ELSE [raised |-> "AttributeError", out |-> out]
    ELSE [raised |-> None, out |-> out]

\* The call f() inside the with block.
Call(f, out) ==
    [raised |-> f.raises, out |-> IF f.sets = "keep" THEN out ELSE f.sets]

\* sys.exc_info() for an error: its class, the code that raised it, the shape
\* of its traceback, and the error it replaced (__context__).
ExcInfo(type, origin, tb, context) ==
    [type |-> type, origin |-> origin, tb |-> tb, context |-> context]

\* None where an exc_info tuple may stand.
NoneExc == ExcInfo(None, None, None, None)

\* "with stdout_to_devnull(no_output): f()": the error that leaves the
\* statement (None when it completes), sys.stdout afterwards, and the record
\* of the scope.  An error raised by __exit__ replaces the one in flight.
With(hide, f, who, out) ==
    LET e == Enter(hide, out)
        c == Call(f, e.out)
        x == Exit(hide, e.saved, c.out)
    IN  [exc   |-> IF x.raised # None
                   THEN ExcInfo(x.raised, "__exit__", "plain", c.raised)
                   ELSE IF c.raised # None
                   THEN ExcInfo(c.raised, who, f.tb, None)
                   ELSE NoneExc,
         out   |-> x.out,
         scope |-> [hide |-> hide, who |-> who, entry |-> out,
                    inner |-> e.out, left |-> c.out, exit |-> x.out]]

(***************************************************************************)
(* singletest: the test object made by decorating_function and its run().  *)
(***************************************************************************)
\* The closure of run(): the decorator's parameters and the decorated fn.
Test(expected, setup, teardown, run_if, fn) ==
    [expected |-> expected, setup |-> setup, teardown |-> teardown,
     run_if |-> run_if, fn |-> fn]

\* A validation that looks at the body only.
ValidateBodyOnly(t) == Rejects(t.fn, "fn")
\* The loop "for f in (fn, setup, teardown)" of decorating_function: the
\* first error raised, or Accepted.
Validate(t) ==
    LET a == Rejects(t.fn, "fn")
        b == Rejects(t.setup, "setup")
        c == Rejects(t.teardown, "teardown")
    IN  IF a.raised # None THEN a ELSE IF b.raised # None THEN b ELSE c

\* A run() without the run_if test.
SkippedNever(t) == FALSE
\* "if not run_if: return None, None, None".
Skipped(t) == ~t.run_if

\* The reason string 'No exception was raised (expected %s).' % name.
Reason(expected) == [text |-> "No exception was raised", expected |-> expected]

\* None where a reason may stand.
NoneReason == [text |-> None, expected |-> None]

\* What run() has when it ends: how it ended (kind "return" with the tuple
\* (state, reason, exc), state one of "True", "False", "None"; or kind "raise"
\* with the propagating error in exc),
\* the statement it ended at, the callables it invoked in order, the scopes
\* it went through, and sys.stdout at entry and at the end.
Ended(kind, site, state, reason, exc, calls, scopes, entry, out) ==
    [kind |-> kind, site |-> site, state |-> state, reason |-> reason,
     exc |-> exc, calls |-> calls, scopes |-> scopes, entry |-> entry,
     out |-> out]

\* One guarded "with stdout_to_devnull(no_output): f()" of run(): skipped
\* when the guard ("if setup:", "if teardown:") is false.
Step(guard, hide, f, who, out) ==
    IF guard
    THEN LET w == With(hide, f, who, out)
         IN  [exc |-> w.exc, out |-> w.out, calls |-> <<who>>, scopes |-> <<w.scope>>]
    ELSE [exc |-> NoneExc, out |-> out, calls |-> <<>>, scopes |-> <<>>]

\* The body's try statement: state, reason, exc = True, None, None; the
\* reason when nothing was raised and expected is set; exc when an Exception
\* whose type differs from expected was raised.  (An error that is not an
\* Exception is not handled here: see Run.)
BodyVerdict(exc, expected) ==
    IF exc = NoneExc
    THEN IF expected # None
         THEN [state |-> "False", reason |-> Reason(expected), exc |-> NoneExc]
         ELSE [state |-> "True", reason |-> NoneReason, exc |-> NoneExc]
    ELSE IF TypeDiffers(exc.type, expected)
         THEN [state |-> "False", reason |-> NoneReason, exc |-> exc]
         ELSE [state |-> "True", reason |-> NoneReason, exc |-> NoneExc]

\* A handler that marks the failure and keeps no exc.
TeardownVerdictNoExc(v, exc) ==
    IF v.reason = NoneReason /\ v.exc = NoneExc
    THEN [state |-> "False", reason |-> v.reason, exc |-> v.exc]
    ELSE v
\* The teardown's handler: "if reason is None and exc is None:
\* state, exc = False, sys.exc_info()".
TeardownVerdict(v, exc) ==
    IF v.reason = NoneReason /\ v.exc = NoneExc
    THEN [state |-> "False", reason |-> v.reason, exc |-> exc]
    ELSE v

\* A teardown that is run only after a body that passed.
TeardownGuardOnSuccess(t, v) == Truthy(t.teardown) /\ v.state = "True"
\* "if teardown:" is reached whatever the body's handled outcome was.
TeardownGuard(t, v) == Truthy(t.teardown)

\* "if setup:".
SetupGuard(t) == Truthy(t.setup)

\* run(no_output) with sys.stdout = out0 at the call.
Run(t, no_output, out0) ==
    IF Skipped(t)
    THEN Ended("return", "skip", "None", NoneReason, NoneExc, <<>>, <<>>, out0, out0)
    ELSE
    LET s == Step(SetupGuard(t), no_output, t.setup, "setup", out0) IN
    IF s.exc # NoneExc
    THEN IF ExceptException(s.exc.type)
         THEN Ended("return", "setup", "False", NoneReason, s.exc, s.calls, s.scopes, out0, s.out)
         ELSE Ended("raise", "setup", "None", NoneReason, s.exc, s.calls, s.scopes, out0, s.out)
    ELSE
    LET b == Step(TRUE, no_output, t.fn, "fn", s.out)
        bcalls  == s.calls \o b.calls
        bscopes == s.scopes \o b.scopes
    IN
    IF b.exc # NoneExc /\ ~ExceptException(b.exc.type)
    THEN Ended("raise", "fn", "None", NoneReason, b.exc, bcalls, bscopes, out0, b.out)
    ELSE
    LET v == BodyVerdict(b.exc, t.expected)
        d == Step(TeardownGuard(t, v), no_output, t.teardown, "teardown", b.out)
        dcalls  == bcalls \o d.calls
        dscopes == bscopes \o d.scopes
    IN
    IF d.exc # NoneExc /\ ~ExceptException(d.exc.type)
    THEN Ended("raise", "teardown", "None", NoneReason, d.exc, dcalls, dscopes, out0, d.out)
    ELSE
    LET r == IF d.exc # NoneExc THEN TeardownVerdict(v, d.exc) ELSE v
    IN  Ended("return", "end", r.state, r.reason, r.exc, dcalls, dscopes, out0, d.out)

(***************************************************************************)
(* print_exception and get_meaningful_expression, by whether they raise.   *)
(***************************************************************************)
\* get_meaningful_expression(tb), tb being exc's traceback without run()'s
\* own frame: with no frame left tb is None and "tb.tb_next" raises
\* AttributeError; inspect.getsourcelines() raises OSError when the frame has
\* no source; tokenize raises TokenError on a line that does not end its
\* statement; otherwise the line is expanded.
GetMeaningfulExpression(tb) ==
    CASE tb = "noframe"  -> "AttributeError"
      [] tb = "nosource" -> "OSError"
      [] tb = "notokens" -> "TokenError"
      [] OTHER           -> None

\* print_exception(type, value, tb, expand_errors): the traceback is printed,
\* then with expand_errors the expression is expanded; the class of the error
\* it raises, or None.
PrintException(exc, expand_errors) ==
    IF expand_errors THEN GetMeaningfulExpression(exc.tb) ELSE None

(***************************************************************************)
(* Swallow: the suite.                                                     *)
(***************************************************************************)
\* The callables given to Swallow(setup, teardown) and the registered bodies.
SuiteSetups == {NoneFn, F_ok, F_zde, F_needs}
SuiteTeardowns == {NoneFn, F_zde}
SuiteBodies == {F_ok, F_zde, F_builtin, F_sysexit}
\* The bodies under "@t", and what "@t(run_if)" and "@t.expect(...)" are
\* applied to.
PlainBodies == SuiteBodies \cup {F_exec, F_multi}
WrappedBodies == {F_ok, F_zde, F_int}
SuiteExpecteds == {"ZeroDivisionError"}

\* The wrapper a registration makes: the singletest, and id, the identity of
\* the wrapper object (the number of the registration call that made it).
Registered(id, t) == [id |-> id, t |-> t]

\* self.tests.insert(0, t).
AppendFirst(ts, t) == <<t>> \o ts
\* self.tests.append(t).
AppendTest(ts, t) == Append(ts, t)

\* A registration that appends before it validates.
RegisterTestsUnchecked(ts, t, err) == AppendTest(ts, t)
\* "t = singletest(...)(fn)" and then "self.tests.append(t)": when
\* decorating_function raises, the append is not reached.
RegisterTests(ts, t, err) == IF err.raised # None THEN ts ELSE AppendTest(ts, t)

\* An iteration that captures the output.
IterNoOutputHidden == TRUE
\* The argument of "t.run(False)" in __iter__.
IterNoOutput == FALSE

\* Counters that a call of Swallow.run takes over from the call before.
RunCountersKept(c) == c
\* "passed = 0, not_run = 0, failed = 0" at the start of Swallow.run.
RunCounters(c) == [passed |-> 0, not_run |-> 0, failed |-> 0]

\* A tally without the "elif state is None" branch.
TallyNoneAsFailed(c, state) ==
    IF state = "True"
    THEN [c EXCEPT !.passed = @ + 1]
    ELSE [c EXCEPT !.failed = @ + 1]
\* The counters after one case of Swallow.run: "if state: passed += 1,
\* elif state is None: not_run += 1, else: failed += 1".
Tally(c, state) ==
    IF state = "True"
    THEN [c EXCEPT !.passed = @ + 1]
    ELSE IF state = "None"
    THEN [c EXCEPT !.not_run = @ + 1]
    ELSE [c EXCEPT !.failed = @ + 1]

\* The word printed after 'Testing %s: '.
Verdict(state) ==
    IF state = "True" THEN "PASS" ELSE IF state = "None" THEN "NOT RUN" ELSE "FAIL"

\* The locals type, value, tb of Swallow.run before their first assignment.
Unbound == ExcInfo("unbound", "unbound", "unbound", "unbound")

\* What a call of Swallow.run has produced, before the first call.
NoReturn == [call |-> "none", kind |-> "none", counts |-> <<0, 0, 0>>, exc |-> NoneExc,
             summary |-> FALSE, timed |-> FALSE]

\* The signatures the validator is asked about.
SigKinds == {"function", "method", "native", "value", "none"}
Sigs ==
    {sig \in [kind : SigKinds, npos : 0..MaxPos, ndefaults : 0..MaxPos,
              star : BOOLEAN, special : BOOLEAN] :
        /\ sig.ndefaults <= sig.npos
        /\ (sig.kind = "method" /\ sig.npos = 0) => sig.star
        /\ sig.kind \in {"value", "none"}
             => sig.npos = 0 /\ ~sig.star /\ ~sig.special}

\* Before takes_no_positional_arguments() was called.
NoAnswer == [raised |-> None, value |-> "unasked"]

(***************************************************************************)
(* State.                                                                  *)
(***************************************************************************)
\* Before the decorator ran / before the first t.run().
NoTest == Test(None, NoneFn, NoneFn, FALSE, NoneFn)
NoResult == Ended("none", "none", "None", NoneReason, NoneExc, <<>>, <<>>, "console", "console")
\* Before the first decoration or registration.
NoReg == [err |-> Accepted, t |-> NoTest, done |-> FALSE]
\* Before the first call of Swallow.run or iteration, and after a registration.
NoPrev == [call |-> "none", kind |-> "none", counts |-> <<0, 0, 0>>, log |-> <<>>,
           tests |-> <<>>]

VARIABLES
    stdout,     \* sys.stdout
    test,       \* the decorated test of Spec, or NoTest
    no_out,     \* the no_output argument of the last t.run()
    res,        \* what the last t.run() ended with, or NoResult
    nruns,      \* number of t.run() calls so far
    invoked,    \* every callable invoked by the t.run() calls so far, in order
    suite,      \* the Swallow instance: [setup, teardown, tests]
    nreg,       \* number of registration calls so far
    pc,         \* "idle", "run" (inside Swallow.run's loop), "iter" (inside __iter__'s loop)
    idx,        \* position of the loop in self.tests (1-based)
    args,       \* the arguments of the Swallow.run call: [no_output, expand_errors]
    counts,     \* the locals passed, not_run, failed
    exc_local,  \* the locals type, value, tb
    report,     \* the lines 'Testing NAME: PASS / NOT RUN / FAIL' printed so far, in order
    diags,      \* what was printed on stderr for failed cases, in order
    log,        \* <<id, callable>> for each callable invoked by the loop, in order
    outcomes,   \* the (state, reason, exc) the loop got from each t.run(), in order
    yielded,    \* what __iter__ yielded so far, in order
    ret,        \* how the last Swallow.run call or iteration ended
    prev,       \* ret and log of the call or iteration before the current one, and
                \* self.tests as it was when the current one began
    reg,        \* the last decoration or registration: the test asked for and the error raised
    fsig,       \* the signature takes_no_positional_arguments() is asked about
    answer      \* what it answered, or NoAnswer

testvars  == <<test, no_out, res, nruns, invoked>>
suitevars == <<suite, nreg, pc, idx, args, counts, exc_local, report, diags, log,
               outcomes, yielded, ret, prev>>
validvars == <<fsig, answer>>
vars == <<stdout, test, no_out, res, nruns, invoked, suite, nreg, pc, idx, args,
          counts, exc_local, report, diags, log, outcomes, yielded, ret, prev, reg,
          fsig, answer>>

NoArgs == [no_output |-> TRUE, expand_errors |-> TRUE]
ZeroCounts == [passed |-> 0, not_run |-> 0, failed |-> 0]

\* What __init__ and the start of a call leave in the loop's variables.
Fresh ==
    /\ pc = "idle"
    /\ idx = 1
    /\ args = NoArgs
    /\ counts = ZeroCounts
    /\ exc_local = Unbound
    /\ report = <<>>
    /\ diags = <<>>
    /\ log = <<>>
    /\ outcomes = <<>>
    /\ yielded = <<>>
    /\ ret = NoReturn
    /\ prev = NoPrev

\* The validator has not been called directly.
ValidInit ==
    /\ fsig = Signature(NoneFn)
    /\ answer = NoAnswer

TestInit ==
    /\ test = NoTest
    /\ no_out = TRUE
    /\ res = NoResult
    /\ nruns = 0
    /\ invoked = <<>>
    /\ reg = NoReg

\* Spec: nothing decorated yet; the suite is not used.
Init ==
    /\ stdout = "console"
    /\ TestInit
    /\ suite = [setup |-> NoneFn, teardown |-> NoneFn, tests |-> <<>>]
    /\ nreg = 0
    /\ Fresh
    /\ ValidInit

\* @singletest(expected, setup, teardown, run_if) applied to fn, once: when
\* the validation raises, no wrapper (and no run method) is made.
Decorate(expected, setup, teardown, run_if, fn) ==
    /\ test = NoTest
    /\ ~reg.done
    /\ \E t \in {Test(expected, setup, teardown, run_if, fn)} : \E e \in {Validate(t)} :
           /\ reg' = [err |-> e, t |-> t, done |-> TRUE]
           /\ test' = IF e.raised # None THEN NoTest ELSE t
    /\ UNCHANGED <<stdout, no_out, res, nruns, invoked>>
    /\ UNCHANGED suitevars
    /\ UNCHANGED validvars

\* t.run(no_output), called from code that catches what it raises.
TestRun(no_output) ==
    /\ test # NoTest
    /\ nruns < MaxRuns
    /\ \E r \in {Run(test, no_output, stdout)} :
           /\ res' = r
           /\ stdout' = r.out
           /\ invoked' = invoked \o r.calls
    /\ no_out' = no_output
    /\ nruns' = nruns + 1
    /\ UNCHANGED <<test, reg>>
    /\ UNCHANGED suitevars
    /\ UNCHANGED validvars

Next ==
    \/ /\ test = NoTest /\ ~reg.done
       /\ \E e \in Expecteds, s \in Callables \cup Uncallables \cup {NoneFn},
             d \in Callables \cup Uncallables \cup {NoneFn},
             r \in BOOLEAN, f \in Callables \cup Uncallables : Decorate(e, s, d, r, f)
    \/ \E no_output \in BOOLEAN : TestRun(no_output)

Spec == Init /\ [][Next]_vars

(***************************************************************************)
(* ValidatorSpec: takes_no_positional_arguments() asked about a signature. *)
(***************************************************************************)
ValidatorInit ==
    /\ stdout = "console"
    /\ TestInit
    /\ suite = [setup |-> NoneFn, teardown |-> NoneFn, tests |-> <<>>]
    /\ nreg = 0
    /\ Fresh
    /\ fsig \in Sigs
    /\ answer = NoAnswer

\* takes_no_positional_arguments(fn), called from code that catches what it
\* raises.
Validator ==
    /\ answer = NoAnswer
    /\ answer' = TakesNoPositionalArguments(fsig)
    /\ UNCHANGED <<stdout, reg, fsig>>
    /\ UNCHANGED testvars
    /\ UNCHANGED suitevars

ValidatorNext == Validator

ValidatorSpec == ValidatorInit /\ [][ValidatorNext]_vars

(***************************************************************************)
(* SuiteSpec: Swallow(setup, teardown), registrations, run and iteration.  *)
(***************************************************************************)
\* Swallow.__init__(setup, teardown).
SuiteInit ==
    /\ stdout = "console"
    /\ TestInit
    /\ \E s \in SuiteSetups, d \in SuiteTeardowns :
          suite = [setup |-> s, teardown |-> d, tests |-> <<>>]
    /\ nreg = 0
    /\ Fresh
    /\ ValidInit

\* The three registrations end alike: singletest(...)(fn), which may raise,
\* then self.tests.append(t).  What earlier calls returned or printed is
\* dropped from the record.
Register(expected, run_if, fn) ==
    /\ pc = "idle"
    /\ nreg < MaxTests
    /\ \E t \in {Test(expected, suite.setup, suite.teardown, run_if, fn)} :
       \E e \in {Validate(t)} :
           /\ reg' = [err |-> e, t |-> t, done |-> TRUE]
           /\ suite' = [suite EXCEPT !.tests =
                            RegisterTests(@, Registered(nreg + 1, t), e)]
    /\ nreg' = nreg + 1
    /\ idx' = 1 /\ args' = NoArgs /\ counts' = ZeroCounts /\ exc_local' = Unbound
    /\ report' = <<>> /\ diags' = <<>> /\ log' = <<>> /\ outcomes' = <<>>
    /\ yielded' = <<>> /\ ret' = NoReturn /\ prev' = NoPrev
    /\ UNCHANGED <<stdout, pc, test, no_out, res, nruns, invoked>>
    /\ UNCHANGED validvars

\* "@t" above a function: __call__(fn), run_if being the function itself
\* ("if callable(run_if)"; a value that is not callable is taken for the
\* condition of the gated form).
RegisterPlain(fn) == IsCallable(Signature(fn)) /\ Register(None, TRUE, fn)

\* "@t(run_if)" above a function: __call__(run_if) and then wrapper(fn).
RegisterGated(run_if, fn) == Register(None, run_if, fn)

\* "@t.expect(expected, run_if)" above a function.
RegisterExpect(expected, run_if, fn) == Register(expected, run_if, fn)

\* Swallow.run(no_output, expand_errors) is called: the timer's wrapper takes
\* the time and run() sets passed = not_run = failed = 0.
RunBegin(no_output, expand_errors) ==
    /\ pc = "idle"
    /\ pc' = "run"
    /\ idx' = 1
    /\ args' = [no_output |-> no_output, expand_errors |-> expand_errors]
    /\ counts' = RunCounters(counts)
    /\ exc_local' = Unbound
    /\ report' = <<>> /\ diags' = <<>> /\ log' = <<>> /\ outcomes' = <<>>
    /\ yielded' = <<>>
    /\ ret' = NoReturn
    /\ prev' = [call |-> ret.call, kind |-> ret.kind, counts |-> ret.counts, log |-> log,
                tests |-> suite.tests]
    /\ UNCHANGED <<stdout, suite, nreg, reg>>
    /\ UNCHANGED testvars
    /\ UNCHANGED validvars

\* The (id, callable) pairs of one case's calls.
Calls(id, calls) == [i \in DOMAIN calls |-> <<id, calls[i]>>]

\* One turn of "for t in self.tests" in Swallow.run: the name is printed,
\* t.run(no_output) is called, the counters are updated, the verdict is
\* printed and, for a failed case, the reason or the exception.  An error
\* that leaves t.run() or print_exception() leaves Swallow.run and the timer.
RunCase ==
    /\ pc = "run"
    /\ idx <= Len(suite.tests)
    /\ \E c \in {suite.tests[idx]} : \E r \in {Run(c.t, args.no_output, stdout)} :
       LET x == IF r.exc # NoneExc THEN r.exc ELSE exc_local
           failed == r.state # "True" /\ r.state # "None"
           p == IF failed /\ r.reason = NoneReason
                THEN PrintException(x, args.expand_errors) ELSE None
       IN  /\ stdout' = r.out
           /\ log' = log \o Calls(c.id, r.calls)
           /\ IF r.kind = "raise"
              THEN /\ pc' = "idle"
                   /\ ret' = [call |-> "run", kind |-> "raise", counts |-> <<0, 0, 0>>,
                              exc |-> r.exc, summary |-> FALSE, timed |-> FALSE]
                   /\ report' = Append(report, [id |-> c.id, verdict |-> "none"])
                   /\ UNCHANGED <<idx, counts, exc_local, diags, outcomes>>
              ELSE /\ outcomes' = Append(outcomes,
                          [id |-> c.id, state |-> r.state, reason |-> r.reason, exc |-> r.exc])
                   /\ exc_local' = x
                   /\ counts' = Tally(counts, r.state)
                   /\ report' = Append(report, [id |-> c.id, verdict |-> Verdict(r.state)])
                   /\ diags' = IF ~failed THEN diags
                               ELSE IF r.reason # NoneReason
                               THEN Append(diags, [id |-> c.id, reason |-> r.reason, exc |-> NoneExc])
                               ELSE Append(diags, [id |-> c.id, reason |-> NoneReason, exc |-> x])
                   /\ IF p # None
                      THEN /\ pc' = "idle"
                           /\ ret' = [call |-> "run", kind |-> "raise", counts |-> <<0, 0, 0>>,
                                      exc |-> ExcInfo(p, "print_exception", "plain", None),
                                      summary |-> FALSE, timed |-> FALSE]
                           /\ UNCHANGED idx
                      ELSE /\ idx' = idx + 1
                           /\ UNCHANGED <<pc, ret>>
    /\ UNCHANGED <<suite, nreg, args, yielded, prev, reg>>
    /\ UNCHANGED testvars
    /\ UNCHANGED validvars

\* The loop of Swallow.run is over: the summary is printed, the tuple
\* (passed, not_run, failed) returned and the timer prints the time.
RunEnd ==
    /\ pc = "run"
    /\ idx > Len(suite.tests)
    /\ pc' = "idle"
    /\ ret' = [call |-> "run", kind |-> "return",
               counts |-> <<counts.passed, counts.not_run, counts.failed>>,
               exc |-> NoneExc, summary |-> TRUE, timed |-> TRUE]
    /\ UNCHANGED <<stdout, suite, nreg, idx, args, counts, exc_local, report, diags,
                   log, outcomes, yielded, prev, reg>>
    /\ UNCHANGED testvars
    /\ UNCHANGED validvars

\* iter(suite) and the first next(): the generator starts its loop.
IterBegin ==
    /\ pc = "idle"
    /\ pc' = "iter"
    /\ idx' = 1
    /\ args' = [no_output |-> IterNoOutput, expand_errors |-> FALSE]
    /\ counts' = ZeroCounts
    /\ exc_local' = Unbound
    /\ report' = <<>> /\ diags' = <<>> /\ log' = <<>> /\ outcomes' = <<>>
    /\ yielded' = <<>>
    /\ ret' = NoReturn
    /\ prev' = [call |-> ret.call, kind |-> ret.kind, counts |-> ret.counts, log |-> log,
                tests |-> suite.tests]
    /\ UNCHANGED <<stdout, suite, nreg, reg>>
    /\ UNCHANGED testvars
    /\ UNCHANGED validvars

\* One turn of "for t in self.tests: yield t.run(False)"; an error that leaves
\* t.run() ends the generator.
IterNext ==
    /\ pc = "iter"
    /\ idx <= Len(suite.tests)
    /\ \E c \in {suite.tests[idx]} : \E r \in {Run(c.t, IterNoOutput, stdout)} :
           /\ stdout' = r.out
           /\ log' = log \o Calls(c.id, r.calls)
           /\ IF r.kind = "raise"
              THEN /\ pc' = "idle"
                   /\ ret' = [call |-> "iter", kind |-> "raise", counts |-> <<0, 0, 0>>,
                              exc |-> r.exc, summary |-> FALSE, timed |-> FALSE]
                   /\ UNCHANGED <<idx, yielded>>
              ELSE /\ yielded' = Append(yielded,
                          [id |-> c.id, state |-> r.state, reason |-> r.reason, exc |-> r.exc,
                           scopes |-> r.scopes])
                   /\ idx' = idx + 1
                   /\ UNCHANGED <<pc, ret>>
    /\ UNCHANGED <<suite, nreg, args, counts, exc_local, report, diags, outcomes, prev, reg>>
    /\ UNCHANGED testvars
    /\ UNCHANGED validvars

\* The generator's loop is over (StopIteration).
IterEnd ==
    /\ pc = "iter"
    /\ idx > Len(suite.tests)
    /\ pc' = "idle"
    /\ ret' = [call |-> "iter", kind |-> "stop", counts |-> <<0, 0, 0>>, exc |-> NoneExc,
               summary |-> FALSE, timed |-> FALSE]
    /\ UNCHANGED <<stdout, suite, nreg, idx, args, counts, exc_local, report, diags,
                   log, outcomes, yielded, prev, reg>>
    /\ UNCHANGED testvars
    /\ UNCHANGED validvars

SuiteNext ==
    \/ \E f \in PlainBodies : RegisterPlain(f)
    \/ \E r \in BOOLEAN, f \in WrappedBodies : RegisterGated(r, f)
    \/ \E e \in SuiteExpecteds, r \in BOOLEAN, f \in WrappedBodies : RegisterExpect(e, r, f)
    \/ \E n \in BOOLEAN, x \in BOOLEAN : RunBegin(n, x)
    \/ RunCase
    \/ RunEnd
    \/ IterBegin
    \/ IterNext
    \/ IterEnd

SuiteSpec == SuiteInit /\ [][SuiteNext]_vars

(***************************************************************************)
(* Properties of singletest.run(), checked under Spec.                     *)
(***************************************************************************)
\* A t.run() call has ended (res describes it).
Ran == res.kind # "none"

\* The callable was invoked in the last run.
Invoked(who) == \E i \in DOMAIN res.calls : res.calls[i] = who

\* C1 asks for a pass exactly in these cases: nothing expected and the body
\* returns, or the body raises exactly the expected class.
C1_ShouldPass(t) ==
    \/ t.expected = None /\ t.fn.raises = None
    \/ t.expected # None /\ t.fn.raises = t.expected

\* C1: with run_if true and setup and teardown (if any) not raising, run()
\* yields Passed exactly when nothing is expected and the body returns, or the
\* body raises exactly the expected class; in every other case it yields
\* Failed.
C1_PassedExactlyWhen ==
    (Ran /\ test.run_if /\ test.setup.raises = None /\ test.teardown.raises = None)
        => /\ res.kind = "return"
           /\ res.state = IF C1_ShouldPass(test) THEN "True" ELSE "False"

\* C2: with run_if false, run() returns (None, None, None) for either value of
\* no_output, and no callable is invoked, however many times run() is called.
C2_SkippedNeverInvokes ==
    (test # NoTest /\ ~test.run_if)
        => /\ invoked = <<>>
           /\ Ran => /\ res.kind = "return"
                     /\ res.state = "None"
                     /\ res.reason = NoneReason
                     /\ res.exc = NoneExc
                     /\ res.calls = <<>>

\* Reached for C2: a gated-off test with a setup, a raising body and a
\* teardown has been run MaxRuns times, the last time with no_output false.
C2_Witness ==
    /\ ~test.run_if /\ test.fn = F_zde /\ test.setup = F_zde /\ test.teardown = F_ok
    /\ nruns >= 2 /\ ~no_out
    /\ res.kind = "return" /\ res.state = "None"

\* C3: if setup raises, run() yields Failed with the setup's error as failure
\* info and no reason, and neither the body nor the teardown is invoked.
C3_SetupErrorReported ==
    (Ran /\ Invoked("setup") /\ test.setup.raises # None)
        => /\ res.kind = "return"
           /\ res.state = "False"
           /\ res.reason = NoneReason
           /\ res.exc.origin = "setup"
           /\ res.exc.type = test.setup.raises
           /\ res.calls = <<"setup">>

\* The body step recorded a failure, in C4's words: an unexpected body error,
\* or no error while one is expected.
C4_BodyFailure(t) ==
    \/ t.fn.raises # None /\ t.fn.raises # t.expected
    \/ t.fn.raises = None /\ t.expected # None

\* C4: when teardown raises after the body recorded a failure, the outcome
\* keeps the body's failure (its error, or the reason) and not the teardown's;
\* when teardown raises and nothing was recorded, the outcome is Failed with
\* the teardown's error.
C4_FirstFailureWins ==
    (Ran /\ Invoked("teardown") /\ test.teardown.raises # None)
        => /\ res.kind = "return"
           /\ res.state = "False"
           /\ IF C4_BodyFailure(test)
              THEN IF test.fn.raises # None
                   THEN /\ res.exc.origin = "fn"
                        /\ res.exc.type = test.fn.raises
                        /\ res.reason = NoneReason
                   ELSE /\ res.reason = Reason(test.expected)
                        /\ res.exc = NoneExc
              ELSE /\ res.exc.origin = "teardown"
                   /\ res.exc.type = test.teardown.raises
                   /\ res.reason = NoneReason

\* <<who>> when the callable is given (is not None).
C5_IfPresent(f, who) == IF f # NoneFn THEN <<who>> ELSE <<>>

\* C5: in every run with run_if true in which setup did not fail (run() did
\* not end in the setup's handler), the calls are setup (if present), the
\* body, teardown (if present), each once, whatever the body's outcome.
C5_SetupBodyTeardown ==
    (Ran /\ test.run_if /\ res.site # "setup")
        => res.calls = C5_IfPresent(test.setup, "setup") \o <<"fn">>
                       \o C5_IfPresent(test.teardown, "teardown")

\* C5 as amended: setup and teardown are called when given and truthy; the
\* teardown is not called when the body step ends with an error that is not
\* an Exception, which leaves run(); a body that returns or raises an
\* Exception never ends that way.
C5_SequenceUnlessBodyEscapes ==
    (Ran /\ test.run_if /\ res.site # "setup")
        => /\ res.calls =
                (IF test.setup.truthy THEN <<"setup">> ELSE <<>>)
                \o <<"fn">>
                \o (IF test.teardown.truthy /\ ~(res.kind = "raise" /\ res.site = "fn")
                    THEN <<"teardown">> ELSE <<>>)
           /\ (test.fn.raises = None \/ IsSubclass(test.fn.raises, "Exception"))
                => ~(res.kind = "raise" /\ res.site = "fn")

\* Reached for C5: setup, a body raising an unexpected error, then teardown.
C5_Witness ==
    /\ test.run_if /\ test.setup = F_ok /\ test.fn = F_zde /\ test.teardown = F_ok
    /\ test.expected = "ArithmeticError"
    /\ res.kind = "return" /\ res.state = "False"
    /\ res.calls = <<"setup", "fn", "teardown">>

C6_Callable(who) ==
    CASE who = "setup"    -> test.setup
      [] who = "fn"       -> test.fn
      [] who = "teardown" -> test.teardown
      [] OTHER            -> NoneFn

C10_StdoutRestored ==
    Ran => /\ \A i \in DOMAIN res.scopes :
                LET sc == res.scopes[i]
                IN  /\ sc.hide => sc.exit = sc.entry
                    /\ ~sc.hide => sc.inner = sc.entry /\ sc.exit = sc.left
           /\ (res.kind = "return" /\ no_out) => res.out = res.entry

\* C16: the expected kind is matched against the body's errors only.  With
\* an expected kind K: when the setup raises exactly K the outcome is Failed
\* and neither the body nor the teardown is invoked; when the teardown raises
\* exactly K after a body step that succeeded (the body raised exactly K) the
\* outcome is Failed with the teardown's error; so an error of kind K from
\* the setup or the teardown never makes the test pass.
C16_ExpectedIsForTheBody ==
    (Ran /\ test.expected # None)
        => /\ (Invoked("setup") /\ test.setup.raises = test.expected)
                => /\ res.kind = "return"
                   /\ res.state = "False"
                   /\ res.calls = <<"setup">>
           /\ (Invoked("teardown") /\ test.teardown.raises = test.expected
                 /\ test.fn.raises = test.expected)
                => /\ res.kind = "return"
                   /\ res.state = "False"
                   /\ res.reason = NoneReason
                   /\ res.exc.origin = "teardown"
                   /\ res.exc.type = test.teardown.raises

\* C17: every result run() returns is Passed with neither reason nor exc,
\* Skipped with neither, or Failed with exactly one of the two; the reason is
\* set exactly when a kind is expected and the body returned normally, and it
\* names the expected kind.
C17_ResultShapes ==
    (Ran /\ res.kind = "return")
        => /\ res.state \in {"True", "False", "None"}
           /\ res.state \in {"True", "None"}
                => res.reason = NoneReason /\ res.exc = NoneExc
           /\ res.state = "False"
                => (res.reason = NoneReason) # (res.exc = NoneExc)
           /\ res.reason # NoneReason
                <=> (test.expected # None /\ Invoked("fn") /\ test.fn.raises = None)
           /\ res.reason # NoneReason => res.reason = Reason(test.expected)

(***************************************************************************)
(* Properties of the registration and of the validator.                    *)
(***************************************************************************)
\* The callables a decoration was given.
C11_Given == {reg.t.fn, reg.t.setup, reg.t.teardown}

\* Given (not None) and not callable.
C11_NotCallable(f) == Signature(f).kind = "value"

\* A callable whose signature shows a positional parameter without a default
\* that a call has to fill (a bound method's self is filled already).
C11_NeedsArgument(f) ==
    LET sig == Signature(f)
    IN  /\ sig.kind \in {"function", "method"}
        /\ ~sig.special
        /\ sig.npos - (IF sig.kind = "method" THEN 1 ELSE 0) > sig.ndefaults

\* A callable for which the validator returns None.
C11_ArityUnknown(f) ==
    /\ IsCallable(Signature(f))
    /\ TakesNoPositionalArguments(Signature(f)) = [raised |-> None, value |-> "None"]

\* The callable the error of the decoration is about.
C11_Culprit ==
    CASE reg.err.who = "fn"       -> reg.t.fn
      [] reg.err.who = "setup"    -> reg.t.setup
      [] reg.err.who = "teardown" -> reg.t.teardown
      [] OTHER                    -> NoneFn

\* C11: a decoration whose body, setup or teardown is given but not
\* callable, or is a callable that requires a positional argument, raises
\* ValueError: no test is made and nothing is run; a callable of unknown
\* arity and an absent setup or teardown are never what is rejected, and a
\* decoration given only such callables succeeds.
C11_RegistrationErrors ==
    reg.done
        => /\ (\E f \in C11_Given : C11_NotCallable(f) \/ C11_NeedsArgument(f))
                => /\ reg.err.raised = "ValueError"
                   /\ test = NoTest
                   /\ ~Ran /\ invoked = <<>>
           /\ reg.err.raised # None
                => /\ C11_Culprit # NoneFn
                   /\ ~C11_ArityUnknown(C11_Culprit)
                   /\ test = NoTest
           /\ (\A f \in C11_Given : f = NoneFn \/ C11_ArityUnknown(f))
                => /\ reg.err.raised = None
                   /\ test = reg.t

\* Reached for C11: a decoration with a built-in body (arity unknown), no
\* setup and "lambda x: x" as teardown was turned down for the teardown.
C11_Witness ==
    /\ reg.done /\ reg.err.raised = "ValueError"
    /\ reg.err.who = "teardown" /\ reg.err.why = "positional"
    /\ reg.t.fn = F_builtin /\ reg.t.setup = NoneFn /\ reg.t.teardown = F_needs
    /\ test = NoTest

\* The positional parameters a call without arguments leaves unfilled: those
\* without a default, a bound method's first parameter being filled already.
C15_Unfilled(sig) ==
    LET bound == IF sig.kind = "method" /\ sig.npos > 0 THEN 1 ELSE 0
        open  == sig.npos - bound - sig.ndefaults
    IN  IF open > 0 THEN open ELSE 0

\* C15: over every callable (functions, lambdas, bound methods, built-ins)
\* the validator has three answers and raises nothing: None when the
\* signature cannot be inspected, True when the callable can be called
\* without arguments (no positional parameter, or all of them defaulted,
\* with or without *args and **kwargs), False exactly when a positional
\* parameter has no default.  Checked under ValidatorSpec.
C15_ThreeValued ==
    (answer # NoAnswer /\ IsCallable(fsig))
        => /\ answer.raised = None
           /\ answer.value \in {"None", "True", "False"}
           /\ fsig.kind = "native" => answer.value = "None"
           /\ (fsig.kind \in {"function", "method"} /\ ~fsig.special)
                => /\ C15_Unfilled(fsig) = 0 => answer.value = "True"
                   /\ answer.value = "False" <=> C15_Unfilled(fsig) > 0

(***************************************************************************)
(* Properties of Swallow.run and of iteration, checked under SuiteSpec.    *)
(***************************************************************************)
\* C7: Swallow.run never raises because of a case's failure: whatever the
\* cases' outcomes (pass, skip, failure in setup, body or teardown, missing
\* expected exception) and for either value of expand_errors, it visits every
\* registered case, prints the summary and returns the counts.  (Stated for
\* the calls in which every t.run() returned an outcome.)
C7_SuiteRunNeverRaises ==
    (ret.call = "run" /\ ~(ret.kind = "raise" /\ ret.exc.origin # "print_exception"))
        => /\ ret.kind = "return"
           /\ Len(report) = Len(suite.tests)
           /\ ret.summary

\* The number of cases of the current call whose t.run() gave this state.
C8_Count(state) == Cardinality({i \in DOMAIN outcomes : outcomes[i].state = state})

\* C8: each case adds one to exactly one counter, passed for a state of True,
\* not_run for None, failed for False, and the returned tuple
\* (passed, not_run, failed) sums to the number of registered cases.
C8_CountsMatchOutcomes ==
    /\ pc = "run" \/ ret.kind = "return"
         => /\ counts.passed = C8_Count("True")
            /\ counts.not_run = C8_Count("None")
            /\ counts.failed = C8_Count("False")
            /\ counts.passed + counts.not_run + counts.failed = Len(outcomes)
    /\ ret.kind = "return"
         => /\ ret.counts = <<counts.passed, counts.not_run, counts.failed>>
            /\ ret.counts[1] + ret.counts[2] + ret.counts[3] = Len(suite.tests)

\* Reached for C8: a run of two cases returned one not run and one failed.
C8_Witness ==
    /\ ret.kind = "return" /\ ret.counts = <<0, 1, 1>>
    /\ Len(suite.tests) = 2

\* The place of a callable in one case's run.
C9_Rank(who) == CASE who = "setup" -> 1 [] who = "fn" -> 2 [] who = "teardown" -> 3

\* C9: the cases are run in registration order, one at a time: self.tests is
\* in the order of the registration calls, the i-th report line, the i-th
\* outcome and the i-th yielded outcome belong to the i-th case, and every
\* call of a case comes before every call of the next case, setup before body
\* before teardown.
C9_RegistrationOrder ==
    /\ \A i, j \in DOMAIN suite.tests : i < j => suite.tests[i].id < suite.tests[j].id
    /\ Len(report) <= Len(suite.tests)
    /\ \A i \in DOMAIN report : report[i].id = suite.tests[i].id
    /\ Len(outcomes) <= Len(suite.tests)
    /\ \A i \in DOMAIN outcomes : outcomes[i].id = suite.tests[i].id
    /\ Len(yielded) <= Len(suite.tests)
    /\ \A i \in DOMAIN yielded : yielded[i].id = suite.tests[i].id
    /\ \A p, q \in DOMAIN log :
          p < q => \/ log[p][1] < log[q][1]
                   \/ log[p][1] = log[q][1] /\ C9_Rank(log[p][2]) < C9_Rank(log[q][2])

\* Reached for C9: a run over a plain registration and an expect registration
\* returned, each case having called setup, body and teardown.
C9_Witness ==
    /\ ret.kind = "return" /\ Len(report) = 2 /\ Len(log) = 6
    /\ suite.tests[1].t.expected = None /\ suite.tests[2].t.expected = "ZeroDivisionError"
    /\ suite.tests[1].t.fn = F_zde

(***************************************************************************)
(* Properties of iteration, of the expander and of repeated runs, checked  *)
(* under SuiteSpec.                                                        *)
(***************************************************************************)
\* The i-th yielded outcome is the i-th registered case's, and __iter__ has
\* printed nothing.
C12_InOrderAndSilent ==
    /\ Len(yielded) <= Len(suite.tests)
    /\ \A i \in DOMAIN yielded : yielded[i].id = suite.tests[i].id
    /\ (pc = "iter" \/ ret.call = "iter") => report = <<>> /\ diags = <<>>

\* C12: iterating over a suite runs every registered case with its output
\* captured (sys.stdout redirected to the sink during setup, body and
\* teardown) and yields each case's outcome in registration order, printing
\* nothing itself.
C12_IterationCaptures ==
    /\ C12_InOrderAndSilent
    /\ \A i \in DOMAIN yielded : \A j \in DOMAIN yielded[i].scopes :
           /\ yielded[i].scopes[j].hide
           /\ yielded[i].scopes[j].inner = "devnull"
    /\ ret.call = "iter" => ret.kind = "stop" /\ Len(yielded) = Len(suite.tests)

\* C12 as amended: __iter__ calls t.run(False), so the output is not captured
\* (sys.stdout is not redirected in any scope); the outcomes are yielded in
\* registration order, one case per value asked for, and nothing is printed;
\* iterated to its end it has run every registered case, and it ends early
\* only with an error that is not an Exception, raised by a callable.
C12_IterationDoesNotCapture ==
    /\ C12_InOrderAndSilent
    /\ \A i \in DOMAIN yielded : \A j \in DOMAIN yielded[i].scopes :
           /\ ~yielded[i].scopes[j].hide
           /\ yielded[i].scopes[j].inner = yielded[i].scopes[j].entry
    /\ pc = "iter" => Len(yielded) = idx - 1
    /\ (ret.call = "iter" /\ ret.kind = "stop") => Len(yielded) = Len(suite.tests)
    /\ (ret.call = "iter" /\ ret.kind = "raise")
         => /\ ~IsSubclass(ret.exc.type, "Exception")
            /\ Len(yielded) < Len(suite.tests)

\* Reached for C12: an iteration over two cases came to its end, the first
\* case passed and the second failed, each after a setup and a body.
C12_Witness ==
    /\ ret.call = "iter" /\ ret.kind = "stop" /\ Len(yielded) = 2
    /\ yielded[1].state = "True" /\ yielded[2].state = "False"
    /\ Len(yielded[1].scopes) = 2 /\ Len(yielded[2].scopes) = 2

\* C13: the expander never raises: when the failing frame's source cannot be
\* read, when the error line does not tokenize, or when no frame is left
\* below run()'s own, nothing is expanded, the failure is reported and the
\* rest of the suite run is unaffected: no error it raised is recorded for a
\* reported failure, and none ends Swallow.run.
C13_ExpanderNeverRaises ==
    /\ \A i \in DOMAIN diags :
           diags[i].reason = NoneReason
               => PrintException(diags[i].exc, args.expand_errors) = None
    /\ ~(ret.kind = "raise" /\ ret.exc.origin = "print_exception")

\* The calls one run() of a case makes: none when gated off, the setup alone
\* when it raises, else setup (if any), body, teardown (if any).
C14_CaseCalls(t) ==
    IF ~t.run_if THEN <<>>
    ELSE IF t.setup.truthy /\ t.setup.raises # None THEN <<"setup">>
    ELSE (IF t.setup.truthy THEN <<"setup">> ELSE <<>>)
         \o <<"fn">>
         \o (IF t.teardown.truthy THEN <<"teardown">> ELSE <<>>)

\* The entries of the call log that belong to the case with this id.
C14_LogOf(id) == SelectSeq(log, LAMBDA e : e[1] = id)

\* C14: running the same suite twice (its callables are deterministic and
\* leave sys.stdout alone) returns equal (passed, not_run, failed) tuples, and
\* each run invokes every runnable case's setup, body and teardown again: the
\* second call log equals the first, and a returned run has made each case's
\* calls once; a run or an iteration leaves self.tests and the tests in it as
\* they were when it began.  (Stated for calls of Swallow.run that returned.)
C14_RunsAgree ==
    /\ (prev.call = "run" /\ prev.kind = "return" /\ ret.call = "run" /\ ret.kind = "return")
         => /\ ret.counts = prev.counts
            /\ log = prev.log
    /\ (ret.call = "run" /\ ret.kind = "return")
         => \A i \in DOMAIN suite.tests :
               C14_LogOf(suite.tests[i].id)
                   = Calls(suite.tests[i].id, C14_CaseCalls(suite.tests[i].t))
    /\ (pc # "idle" \/ ret.call # "none") => suite.tests = prev.tests

\* Reached for C14: the second of two runs in a row returned, one case having
\* passed and one failed, with setup, body and teardown called in both.
C14_Witness ==
    /\ prev.call = "run" /\ prev.kind = "return"
    /\ ret.call = "run" /\ ret.kind = "return"
    /\ ret.counts = <<1, 0, 1>> /\ Len(log) >= 4 /\ log = prev.log

\* What C18 asks of one step: a registration call that succeeds appends its
\* case at the end and leaves the cases before it as they were, one that
\* raises leaves the suite as it was, and any other step (of a run, of an
\* iteration) leaves the suite as it was.
C18_Step ==
    IF nreg' # nreg
    THEN IF reg'.err.raised # None
         THEN suite' = suite
         ELSE /\ Len(suite'.tests) = Len(suite.tests) + 1
              /\ SubSeq(suite'.tests, 1, Len(suite.tests)) = suite.tests
              /\ suite'.tests[Len(suite'.tests)] = Registered(nreg', reg'.t)
              /\ suite'.setup = suite.setup /\ suite'.teardown = suite.teardown
    ELSE suite' = suite

\* C18: the list of cases is append-only under every sequence of plain,
\* gated and expect registrations, runs and iterations.
C18_AppendOnly == [][C18_Step]_vars

\* Reached for C18: the first registration was turned down and appended
\* nothing, the second one appended its case, and a run over the suite
\* returned with that case still the only one.
C18_Witness ==
    /\ nreg = 2 /\ Len(suite.tests) = 1 /\ suite.tests[1].id = 2
    /\ ret.call = "run" /\ ret.kind = "return"
    /\ Validate(suite.tests[1].t) = Accepted

\* The outcome the current call got from the case with this id.
C19_OutcomeOf(id) == CHOOSE o \in {outcomes[i] : i \in DOMAIN outcomes} : o.id = id

\* C19: in Swallow.run the diagnostic of a Failed case comes from that case's
\* own outcome: there is one diagnostic for each Failed case, in order; when
\* the case has a reason the reason is reported, else the (type, value, tb)
\* given to print_exception is the exc that the same case's run() returned,
\* never what an earlier case left in the locals and never unbound locals.
C19_DiagnosticIsOwn ==
    /\ Len(diags) = Cardinality({i \in DOMAIN outcomes : outcomes[i].state = "False"})
    /\ \A i \in DOMAIN diags :
           /\ \E j \in DOMAIN outcomes : outcomes[j].id = diags[i].id
           /\ LET o == C19_OutcomeOf(diags[i].id)
              IN  /\ o.state = "False"
                  /\ IF o.reason # NoneReason
                     THEN diags[i].reason = o.reason /\ diags[i].exc = NoneExc
                     ELSE /\ diags[i].reason = NoneReason
                          /\ diags[i].exc = o.exc
                          /\ diags[i].exc # Unbound
                          /\ diags[i].exc # NoneExc
    /\ \A i, j \in DOMAIN diags : i < j => diags[i].id < diags[j].id

\* Reached for C19: a run reported two failures, the first with the exc of
\* the body's error, the second, with that exc still in the locals, with its
\* reason.
C19_Witness ==
    /\ ret.call = "run" /\ ret.kind = "return" /\ Len(diags) = 2
    /\ diags[1].exc.origin = "fn" /\ diags[1].exc.type = "ZeroDivisionError"
    /\ diags[2].reason = Reason("ZeroDivisionError") /\ diags[2].exc = NoneExc
    /\ exc_local = diags[1].exc

====
